---- MODULE Spec2Model ----
(***************************************************************************)
(* Credit Risk Dashboard (src/app.py): the cached data preparation         *)
(* load_data and the Streamlit script that filters the prepared frame and  *)
(* computes the KPIs on every rerun.                                       *)
(*                                                                         *)
(* Representation.                                                         *)
(*  - A cell is a tuple: <<>> is a missing value (NaN), <<v>> holds v.     *)
(*  - A frame is [cols |-> set of column names, rows |-> sequence of rows];*)
(*    a row is a function from the tracked columns the frame has to cells. *)
(*  - The float columns (every numeric column but SK_ID_CURR and TARGET)   *)
(*    are held in fixed point with two units per 1 (Fx): the only          *)
(*    non-integers these columns can receive are medians of two integers.  *)
(*  - AGE_YEARS and YEARS_EMPLOYED are rounded to one decimal; they are    *)
(*    held in tenths (30.1 is 301).                                        *)
(*  - A mean is the exact fraction <<sum, count>>.                         *)
(*  - AMT_ANNUITY, EXT_SOURCE_1..3 and the ratio columns derived from them *)
(*    are tracked by presence only (their absence raises KeyError).        *)
(***************************************************************************)
EXTENDS Integers, Sequences, FiniteSets

VARIABLES
    source,         \* the CSV behind FILE_URL: [cols, rows]
    cache,          \* st.cache_data store of load_data: <<>> or <<frame>>
    bodyRuns,       \* times the body of load_data was entered
    bodyReturns,    \* times the body of load_data returned a frame
    status,         \* "idle" (no run yet) | "ok" | "error" (last run raised)
    error,          \* the exception of the last run, NoError otherwise
    df,             \* script global df (line 56)
    target_filter,  \* widget values (lines 64-86)
    gender_filter,
    income_filter,
    age_range,
    df_filtered,    \* script global df_filtered (lines 92-108)
    total_clients,  \* KPIs (lines 116-119)
    default_rate,
    avg_income,
    avg_credit

vars == <<source, cache, bodyRuns, bodyReturns, status, error, df,
          target_filter, gender_filter, income_filter, age_range,
          df_filtered, total_clients, default_rate, avg_income, avg_credit>>

----------------------------------------------------------------------------
(* Bounds *)

MaxRows == 3

MaxRuns == 2

----------------------------------------------------------------------------
(* Cells and numbers *)

NaN == <<>>

Cell(v) == <<v>>

IsNa(c) == c = NaN

Fx(n) == 2 * n

SENTINEL == 365243

DAYS_PER_YEAR == 365

\* pandas ==, >=, <=, < on a cell and a scalar: any comparison with NaN is False
PdEq(c, v) == ~IsNa(c) /\ ~IsNa(v) /\ c = v

PdGe(c, x) == ~IsNa(c) /\ c[1] >= x

PdLe(c, x) == ~IsNa(c) /\ c[1] <= x

PdLt(c, x) == ~IsNa(c) /\ c[1] < x

\* nearest integer to n / d (d > 0), ties to the even integer (numpy rint).
\* For the day counts of this model (multiples of 1/2) ten times the quotient
\* by 365 is never within 1/146 of a tie, so float64 error cannot change it.
RoundHalfEven(n, d) ==
    LET q == n \div d
        r == n % d
    IN  IF 2 * r < d THEN q
        ELSE IF 2 * r > d THEN q + 1
        ELSE IF q % 2 = 0 THEN q ELSE q + 1

\* variant: the quotient cut off after one decimal instead of rounded
NegYearsRound1_trunc(c) ==
    IF IsNa(c) THEN NaN
    ELSE Cell((-c[1] * 10) \div Fx(DAYS_PER_YEAR))

\* (-c / 365).round(1) of a float cell, in tenths
NegYearsRound1(c) ==
    IF IsNa(c) THEN NaN
    ELSE Cell(RoundHalfEven(-c[1] * 10, Fx(DAYS_PER_YEAR)))

----------------------------------------------------------------------------
(* Columns *)

IdTargetCols == {"SK_ID_CURR", "TARGET"}

CategoricalNames == {"CODE_GENDER", "NAME_INCOME_TYPE"}

FloatCols == {"DAYS_BIRTH", "DAYS_EMPLOYED", "AMT_INCOME_TOTAL", "AMT_CREDIT"}

RawTracked == IdTargetCols \cup CategoricalNames \cup FloatCols

PresenceOnly == {"AMT_ANNUITY", "EXT_SOURCE_1", "EXT_SOURCE_2", "EXT_SOURCE_3"}

RawCols == RawTracked \cup PresenceOnly

RequiredBase == {"DAYS_BIRTH", "AMT_INCOME_TOTAL", "AMT_CREDIT", "AMT_ANNUITY"}

DerivedTracked == {"AGE_YEARS", "YEARS_EMPLOYED", "SHORT_EMPLOYMENT"}

DerivedCols == DerivedTracked \cup {"CREDIT_INCOME_RATIO", "ANNUITY_INCOME_RATIO",
                                    "ANNUITY_CREDIT_RATIO", "EXT_SOURCE_MEAN"}

NoFrame == [cols |-> {}, rows |-> <<>>]

Column(d, c) == [i \in 1..Len(d.rows) |-> d.rows[i][c]]

\* d with column c of row i set to f[i]; the column is added when new
WithColumn(d, c, f) ==
    [cols |-> d.cols \cup {c},
     rows |-> [i \in 1..Len(d.rows) |->
                 [k \in (DOMAIN d.rows[i]) \cup {c} |->
                     IF k = c THEN f[i] ELSE d.rows[i][k]]]]

----------------------------------------------------------------------------
(* load_data, lines 24-54 *)

\* pd.read_csv (line 29): integers of the float columns enter fixed point
ReadCsv(src) ==
    [cols |-> src.cols,
     rows |-> [i \in 1..Len(src.rows) |->
                 [k \in DOMAIN src.rows[i] |->
                     IF k \in FloatCols /\ ~IsNa(src.rows[i][k])
                     THEN Cell(Fx(src.rows[i][k][1]))
                     ELSE src.rows[i][k]]]]

\* dtype inference: a text column with at least one string is object; a text
\* column whose cells are all missing is parsed as float64
ObjectCols(d) ==
    {c \in d.cols \cap CategoricalNames :
        \E i \in 1..Len(d.rows) : ~IsNa(d.rows[i][c])}

NumberCols(d) == (d.cols \cap RawTracked) \ ObjectCols(d)

\* variant: line 32 left out
FixAnomalies_skip(d) == d

\* line 32: df.loc[df["DAYS_EMPLOYED"] == 365243, "DAYS_EMPLOYED"] = np.nan
FixAnomalies(d) ==
    WithColumn(d, "DAYS_EMPLOYED",
        [i \in 1..Len(d.rows) |->
            IF PdEq(d.rows[i]["DAYS_EMPLOYED"], Cell(Fx(SENTINEL)))
            THEN NaN ELSE d.rows[i]["DAYS_EMPLOYED"]])

\* Series.fillna(v) on each column of cs, v = fill[c]; filling with NaN
\* leaves the cell missing. The columns are filled independently of each other.
FillNa(d, cs, fill) ==
    [cols |-> d.cols,
     rows |-> [i \in 1..Len(d.rows) |->
                 [k \in DOMAIN d.rows[i] |->
                     IF k \in cs /\ IsNa(d.rows[i][k]) THEN fill[k]
                     ELSE d.rows[i][k]]]]

\* lines 35-36
FillCategorical(d) ==
    FillNa(d, ObjectCols(d), [c \in ObjectCols(d) |-> Cell("Unknown")])

RECURSIVE DropNa(_)
\* the non-missing values of a sequence of cells
DropNa(cells) ==
    IF cells = <<>> THEN <<>>
    ELSE IF IsNa(Head(cells)) THEN DropNa(Tail(cells))
    ELSE <<Head(cells)[1]>> \o DropNa(Tail(cells))

RECURSIVE Insert(_, _)
Insert(x, sorted) ==
    IF sorted = <<>> THEN <<x>>
    ELSE IF x <= Head(sorted) THEN <<x>> \o sorted
    ELSE <<Head(sorted)>> \o Insert(x, Tail(sorted))

RECURSIVE Sorted(_)
Sorted(xs) == IF xs = <<>> THEN <<>> ELSE Insert(Head(xs), Sorted(Tail(xs)))

\* Series.median(): NaN skipped; the middle value, or the mean of the two
\* middle values; NaN when nothing is left
Median(cells) ==
    LET s == Sorted(DropNa(cells))
        n == Len(s)
    IN  IF n = 0 THEN NaN
        ELSE IF n % 2 = 1 THEN Cell(s[(n + 1) \div 2])
        ELSE Cell((s[n \div 2] + s[n \div 2 + 1]) \div 2)

\* lines 39-41
FillNumeric(d) ==
    LET cs == NumberCols(d) \ IdTargetCols
    IN  FillNa(d, cs, [c \in cs |-> Median(Column(d, c))])

\* (df["YEARS_EMPLOYED"] < 1).astype(int), YEARS_EMPLOYED in tenths
ShortEmployment(c) == IF PdLt(c, 10) THEN Cell(1) ELSE Cell(0)

\* lines 44-52
FeatureEngineering(d) ==
    LET a == WithColumn(d, "AGE_YEARS",
                 [i \in 1..Len(d.rows) |-> NegYearsRound1(d.rows[i]["DAYS_BIRTH"])])
        y == WithColumn(a, "YEARS_EMPLOYED",
                 [i \in 1..Len(a.rows) |-> NegYearsRound1(a.rows[i]["DAYS_EMPLOYED"])])
        s == WithColumn(y, "SHORT_EMPLOYMENT",
                 [i \in 1..Len(y.rows) |-> ShortEmployment(y.rows[i]["YEARS_EMPLOYED"])])
    IN  [cols |-> s.cols \cup DerivedCols, rows |-> s.rows]

\* the columns lines 44-51 index, in evaluation order, with the indexing line
FeatureNeeds ==
    << <<"DAYS_BIRTH", 44>>, <<"DAYS_EMPLOYED", 45>>,
       <<"AMT_CREDIT", 47>>, <<"AMT_INCOME_TOTAL", 47>>,
       <<"AMT_ANNUITY", 48>>,
       <<"EXT_SOURCE_1", 51>>, <<"EXT_SOURCE_2", 51>>, <<"EXT_SOURCE_3", 51>> >>

NoError == [type |-> "none", key |-> "", line |-> 0]

KeyError(c, l) == [type |-> "KeyError", key |-> c, line |-> l]

LoadError == [type |-> "LoadError", key |-> "", line |-> 29]

Raised(e) == [ok |-> FALSE, error |-> e, df |-> NoFrame]

Returned(d) == [ok |-> TRUE, error |-> NoError, df |-> d]

\* variant: the fills of lines 35-41 moved above line 32
Prepare_fill_first(d0) ==
    IF "DAYS_EMPLOYED" \notin d0.cols THEN Raised(KeyError("DAYS_EMPLOYED", 32))
    ELSE LET d3 == FixAnomalies(FillNumeric(FillCategorical(d0)))
             missing == {k \in 1..Len(FeatureNeeds) : FeatureNeeds[k][1] \notin d3.cols}
         IN  IF missing # {}
             THEN LET k == CHOOSE m \in missing : \A o \in missing : m <= o
                  IN  Raised(KeyError(FeatureNeeds[k][1], FeatureNeeds[k][2]))
             ELSE Returned(FeatureEngineering(d3))

\* the body of load_data on the parsed frame; df[c] of an absent column
\* raises KeyError
Prepare(d0) ==
    IF "DAYS_EMPLOYED" \notin d0.cols THEN Raised(KeyError("DAYS_EMPLOYED", 32))
    ELSE LET d3 == FillNumeric(FillCategorical(FixAnomalies(d0)))
             missing == {k \in 1..Len(FeatureNeeds) : FeatureNeeds[k][1] \notin d3.cols}
         IN  IF missing # {}
             THEN LET k == CHOOSE m \in missing : \A o \in missing : m <= o
                  IN  Raised(KeyError(FeatureNeeds[k][1], FeatureNeeds[k][2]))
             ELSE Returned(FeatureEngineering(d3))

\* lines 25-54; reachable is whether pd.read_csv can fetch FILE_URL
LoadDataBody(src, reachable) ==
    IF ~reachable THEN Raised(LoadError) ELSE Prepare(ReadCsv(src))

----------------------------------------------------------------------------
(* The script, lines 56-119 *)

All == Cell("All")

TargetOptions == {"All", "Default only (1)", "Non-default only (0)"}

\* ["All"] + sorted(df[c].unique().tolist()), lines 71 and 76
Options(d, c) == {All} \cup {d.rows[i][c] : i \in 1..Len(d.rows)}

RECURSIVE SeqMin(_)
SeqMin(xs) ==
    IF Len(xs) = 1 THEN xs[1]
    ELSE LET m == SeqMin(Tail(xs)) IN IF xs[1] <= m THEN xs[1] ELSE m

RECURSIVE SeqMax(_)
SeqMax(xs) ==
    IF Len(xs) = 1 THEN xs[1]
    ELSE LET m == SeqMax(Tail(xs)) IN IF xs[1] >= m THEN xs[1] ELSE m

\* lines 79-80, in tenths
AgeMin(d) == SeqMin(DropNa(Column(d, "AGE_YEARS")))

AgeMax(d) == SeqMax(DropNa(Column(d, "AGE_YEARS")))

\* slider positions tried between age_min and age_max, in tenths
AgeStops == {275}

\* the pairs the slider of lines 82-86 can return: age_min <= lo <= hi <= age_max
\* (none before the frame is loaded)
AgeRanges(d) ==
    IF Len(d.rows) = 0 THEN {}
    ELSE LET pts == {AgeMin(d), AgeMax(d)} \cup
                    {a \in AgeStops : AgeMin(d) <= a /\ a <= AgeMax(d)}
         IN  {r \in pts \X pts : r[1] <= r[2]}

TargetIs(rows, v) ==
    LET keep(r) == PdEq(r["TARGET"], Cell(v)) IN SelectSeq(rows, keep)

ColumnIs(rows, c, v) ==
    LET keep(r) == PdEq(r[c], v) IN SelectSeq(rows, keep)

\* variant: < in place of <= on line 107
AgeMask_strict(c, ar) == PdGe(c, ar[1]) /\ PdLt(c, ar[2])

\* lines 106-107
AgeMask(c, ar) == PdGe(c, ar[1]) /\ PdLe(c, ar[2])

AgeBetween(rows, ar) ==
    LET keep(r) == AgeMask(r["AGE_YEARS"], ar) IN SelectSeq(rows, keep)

\* variant: line 100 masks df instead of df_filtered
ApplyFilters_reset(d, t, g, inc, ar) ==
    LET f1 == IF t = "Default only (1)" THEN TargetIs(d.rows, 1)
              ELSE IF t = "Non-default only (0)" THEN TargetIs(d.rows, 0)
              ELSE d.rows
        f2 == IF g # All THEN ColumnIs(d.rows, "CODE_GENDER", g) ELSE f1
        f3 == IF inc # All THEN ColumnIs(f2, "NAME_INCOME_TYPE", inc) ELSE f2
    IN  [cols |-> d.cols, rows |-> AgeBetween(f3, ar)]

\* lines 92-108
ApplyFilters(d, t, g, inc, ar) ==
    LET f0 == d.rows
        f1 == IF t = "Default only (1)" THEN TargetIs(f0, 1)
              ELSE IF t = "Non-default only (0)" THEN TargetIs(f0, 0)
              ELSE f0
        f2 == IF g # All THEN ColumnIs(f1, "CODE_GENDER", g) ELSE f1
        f3 == IF inc # All THEN ColumnIs(f2, "NAME_INCOME_TYPE", inc) ELSE f2
    IN  [cols |-> d.cols, rows |-> AgeBetween(f3, ar)]

RECURSIVE Sum(_)
Sum(xs) == IF xs = <<>> THEN 0 ELSE Head(xs) + Sum(Tail(xs))

Zero == <<0, 1>>

\* Series.mean(): NaN skipped, NaN when nothing is left; the fraction sum/count
Mean(cells) ==
    LET v == DropNa(cells)
    IN  IF v = <<>> THEN NaN ELSE <<Sum(v), Len(v)>>

Times100(m) == IF IsNa(m) THEN NaN ELSE <<100 * m[1], m[2]>>

\* variant: no "if total_clients > 0" guard
IfAny_unguarded(n, m) == m

\* "m if total_clients > 0 else 0", lines 117-119
IfAny(n, m) == IF n > 0 THEN m ELSE Zero

DefaultRate(f) == IfAny(Len(f.rows), Times100(Mean(Column(f, "TARGET"))))

AvgIncome(f) == IfAny(Len(f.rows), Mean(Column(f, "AMT_INCOME_TOTAL")))

AvgCredit(f) == IfAny(Len(f.rows), Mean(Column(f, "AMT_CREDIT")))

----------------------------------------------------------------------------
(* st.cache_data, line 24 *)

\* variant: load_data without the decorator
Memoize_never(c, result) == c

\* the store after the body ran: a returned frame is kept, an exception is not
Memoize(c, result) == IF result.ok THEN <<result.df>> ELSE c

\* load_data(): the memoized frame when there is one, the body otherwise
LoadData(c, src, reachable) ==
    IF c # <<>> THEN Returned(c[1]) ELSE LoadDataBody(src, reachable)

\* variant: lines 92-108 assign to df
ScriptDf_filtered(d, f) == f

\* the global df after lines 92-108, which rebind df_filtered only
ScriptDf(d, f) == d

----------------------------------------------------------------------------
(* The data source *)

Applicant(t, g, inc, birth, employed, income, credit) ==
    [TARGET |-> t, CODE_GENDER |-> g, NAME_INCOME_TYPE |-> inc,
     DAYS_BIRTH |-> birth, DAYS_EMPLOYED |-> employed,
     AMT_INCOME_TOTAL |-> income, AMT_CREDIT |-> credit]

\* the applicants a CSV is made of: an employee, a pensioner (sentinel) with
\* missing fields, a day count beyond the sentinel, and a row without target
\* and employment
Applicants ==
    { Applicant(Cell(0), Cell("F"), Cell("Working"),
                Cell(-10950), Cell(-730), Cell(100), Cell(500)),
      Applicant(Cell(1), Cell("M"), NaN,
                Cell(-7300), Cell(SENTINEL), NaN, Cell(300)),
      Applicant(Cell(1), NaN, Cell("Working"),
                Cell(-14600), Cell(2 * SENTINEL + 730), Cell(300), NaN),
      Applicant(NaN, Cell("F"), NaN,
                Cell(-9000), NaN, Cell(400), Cell(700)) }

\* the columns a deployment's CSV may lack (one at a time)
Absentable ==
    {"DAYS_EMPLOYED", "DAYS_BIRTH", "AMT_INCOME_TOTAL", "AMT_CREDIT",
     "AMT_ANNUITY", "EXT_SOURCE_1"}

\* a CSV of the applicants ts (SK_ID_CURR is the row number) without the
\* columns of absent
Csv(ts, absent) ==
    [cols |-> RawCols \ absent,
     rows |-> [i \in 1..Len(ts) |->
                 [k \in RawTracked \ absent |->
                     IF k = "SK_ID_CURR" THEN Cell(i) ELSE ts[i][k]]]]

\* the ways to list n applicants, each at most once
Registers(n) ==
    {ts \in [1..n -> Applicants] : \A i, j \in 1..n : ts[i] = ts[j] => i = j}

Sources ==
    {Csv(ts, absent) :
        ts \in UNION {Registers(n) : n \in 1..MaxRows},
        absent \in {{}} \cup {{c} : c \in Absentable}}

----------------------------------------------------------------------------
(* State machine: one action is one run of the script, top to bottom *)

Init ==
    /\ source \in Sources
    /\ cache = <<>>
    /\ bodyRuns = 0
    /\ bodyReturns = 0
    /\ status = "idle"
    /\ error = NoError
    /\ df = NoFrame
    /\ target_filter = "All"
    /\ gender_filter = All
    /\ income_filter = All
    /\ age_range = <<0, 0>>
    /\ df_filtered = NoFrame
    /\ total_clients = 0
    /\ default_rate = NaN
    /\ avg_income = NaN
    /\ avg_credit = NaN

\* session state of a widget: no value yet, or the value v
Unset == <<>>

Set(v) == <<v>>

\* lines 56-119 with the loaded frame d and the widget values t, g, inc, ar
Shown(d, t, g, inc, ar) ==
    LET f == ApplyFilters(d, t, g, inc, ar)
    IN  /\ status' = "ok"
        /\ error' = NoError
        /\ df' = ScriptDf(d, f)
        /\ target_filter' = t
        /\ gender_filter' = g
        /\ income_filter' = inc
        /\ age_range' = ar
        /\ df_filtered' = f
        /\ total_clients' = Len(f.rows)
        /\ default_rate' = DefaultRate(f)
        /\ avg_income' = AvgIncome(f)
        /\ avg_credit' = AvgCredit(f)

\* the script stopped at line 56 with exception e: nothing below it ran, and
\* the widgets it did not render lose their values
Stopped(e) ==
    /\ status' = "error"
    /\ error' = e
    /\ df' = NoFrame
    /\ target_filter' = "All"
    /\ gender_filter' = All
    /\ income_filter' = All
    /\ age_range' = <<0, 0>>
    /\ df_filtered' = NoFrame
    /\ total_clients' = 0
    /\ default_rate' = NaN
    /\ avg_income' = NaN
    /\ avg_credit' = NaN

\* One run with the widget values w; reachable is whether pd.read_csv can
\* fetch FILE_URL, should the body run. A widget that has no value yet
\* (w[k] = Unset) takes its default.
Run(reachable, w) ==
    LET hit == cache # <<>>
        result == LoadData(cache, source, reachable)
    IN  /\ hit \/ bodyRuns < MaxRuns
        /\ cache' = IF hit THEN cache ELSE Memoize(cache, result)
        /\ bodyRuns' = IF hit THEN bodyRuns ELSE bodyRuns + 1
        /\ bodyReturns' = IF ~hit /\ result.ok THEN bodyReturns + 1 ELSE bodyReturns
        /\ source' = source
        /\ IF result.ok
           THEN Shown(result.df,
                      IF w[1] = Unset THEN "All" ELSE w[1][1],
                      IF w[2] = Unset THEN All ELSE w[2][1],
                      IF w[3] = Unset THEN All ELSE w[3][1],
                      IF w[4] = Unset THEN <<AgeMin(result.df), AgeMax(result.df)>>
                                      ELSE w[4][1])
           ELSE Stopped(result.error)

\* the fetch outcomes a run can meet: none matters when the frame is memoized
Fetches == IF cache # <<>> THEN {TRUE} ELSE BOOLEAN

\* a session opens the page (or reloads it): every widget at its default
Open ==
    \E reachable \in Fetches : Run(reachable, <<Unset, Unset, Unset, Unset>>)

\* the user changes one widget, which reruns the script
SetTarget(t) ==
    /\ status = "ok"
    /\ t # target_filter
    /\ \E reachable \in Fetches :
         Run(reachable, <<Set(t), Set(gender_filter), Set(income_filter), Set(age_range)>>)

SetGender(g) ==
    /\ status = "ok"
    /\ g # gender_filter
    /\ \E reachable \in Fetches :
         Run(reachable, <<Set(target_filter), Set(g), Set(income_filter), Set(age_range)>>)

SetIncome(inc) ==
    /\ status = "ok"
    /\ inc # income_filter
    /\ \E reachable \in Fetches :
         Run(reachable, <<Set(target_filter), Set(gender_filter), Set(inc), Set(age_range)>>)

SetAgeRange(ar) ==
    /\ status = "ok"
    /\ ar # age_range
    /\ \E reachable \in Fetches :
         Run(reachable, <<Set(target_filter), Set(gender_filter), Set(income_filter), Set(ar)>>)

Next ==
    \/ Open
    \/ \E t \in TargetOptions : SetTarget(t)
    \/ \E g \in Options(df, "CODE_GENDER") : SetGender(g)
    \/ \E inc \in Options(df, "NAME_INCOME_TYPE") : SetIncome(inc)
    \/ \E ar \in AgeRanges(df) : SetAgeRange(ar)

Spec == Init /\ [][Next]_vars

----------------------------------------------------------------------------
(* Properties *)

Rows(d) == 1..Len(d.rows)

Abs(n) == IF n < 0 THEN -n ELSE n

\* the raw DAYS_EMPLOYED cell of row i is a real day count
ValidEmployed(i) ==
    /\ ~IsNa(source.rows[i]["DAYS_EMPLOYED"])
    /\ source.rows[i]["DAYS_EMPLOYED"] # Cell(SENTINEL)

ValidEmployedRows == {i \in Rows(source) : ValidEmployed(i)}

SentinelRows == {i \in Rows(source) : source.rows[i]["DAYS_EMPLOYED"] = Cell(SENTINEL)}

RawEmployed(i) == source.rows[i]["DAYS_EMPLOYED"][1]

\* x is the k-th smallest raw day count among the valid rows
IsKthEmployed(x, k) ==
    /\ \E i \in ValidEmployedRows : RawEmployed(i) = x
    /\ Cardinality({i \in ValidEmployedRows : RawEmployed(i) < x}) < k
    /\ k <= Cardinality({i \in ValidEmployedRows : RawEmployed(i) <= x})

\* twice the median of the valid raw day counts: the sum of the two middle
\* ones (the middle one twice, for an odd count)
TwiceMedianEmployed ==
    LET n == Cardinality(ValidEmployedRows)
        vals == {RawEmployed(i) : i \in ValidEmployedRows}
    IN  {lo + hi : lo \in {x \in vals : IsKthEmployed(x, (n + 1) \div 2)},
                   hi \in {x \in vals : IsKthEmployed(x, n \div 2 + 1)}}

\* y tenths of a year is the one-decimal value nearest to -(m2 / 2) / 365
IsNegYearsOf(y, m2) == 2 * Abs(y * Fx(DAYS_PER_YEAR) + 10 * m2) <= Fx(DAYS_PER_YEAR)

\* C1: after load_data every row has a value in every categorical column and
\* in every numeric column other than SK_ID_CURR and TARGET.
C1_NoMissingAfterLoad ==
    status = "ok" =>
        \A i \in Rows(df) : \A c \in CategoricalNames \cup FloatCols :
            ~IsNa(df.rows[i][c])

\* C2 as stated: after load_data no row has DAYS_EMPLOYED equal to 365243,
\* whatever the raw dataset.
C2_NoSentinelAfterLoad ==
    status = "ok" =>
        \A i \in Rows(df) : df.rows[i]["DAYS_EMPLOYED"] # Cell(Fx(SENTINEL))

\* C2 amended: when every real raw day count is below 365243, after load_data
\* no row has DAYS_EMPLOYED equal to 365243.
C2_NoSentinelWhenBelow ==
    (status = "ok" /\ \A i \in ValidEmployedRows : RawEmployed(i) < SENTINEL) =>
        \A i \in Rows(df) : df.rows[i]["DAYS_EMPLOYED"] # Cell(Fx(SENTINEL))

\* C2 witness: a sentinel row of a dataset with real day counts, all below the
\* sentinel, was given the median.
C2_Witness ==
    /\ status = "ok"
    /\ ValidEmployedRows # {}
    /\ \A i \in ValidEmployedRows : RawEmployed(i) < SENTINEL
    /\ \E i \in SentinelRows : ~IsNa(df.rows[i]["DAYS_EMPLOYED"])

\* C3: with at least one real raw day count, every row whose raw DAYS_EMPLOYED
\* was 365243 ends with YEARS_EMPLOYED = round(-m / 365, 1), m the median of
\* the real raw day counts (sentinel and missing excluded).
C3_SentinelRowGetsMedianYears ==
    (status = "ok" /\ ValidEmployedRows # {}) =>
        \A i \in SentinelRows :
            /\ ~IsNa(df.rows[i]["YEARS_EMPLOYED"])
            /\ TwiceMedianEmployed # {}
            /\ \A m2 \in TwiceMedianEmployed :
                 IsNegYearsOf(df.rows[i]["YEARS_EMPLOYED"][1], m2)

\* C3 witness: a sentinel row beside two real day counts has its years.
C3_Witness ==
    /\ status = "ok"
    /\ Cardinality(ValidEmployedRows) = 2
    /\ \E i \in SentinelRows : ~IsNa(df.rows[i]["YEARS_EMPLOYED"])

\* C4: without a DAYS_EMPLOYED column load_data raises no KeyError unless a
\* required base column is absent.
C4_NoEmployedColumnStillLoads ==
    ("DAYS_EMPLOYED" \notin source.cols /\ status = "error" /\ error.type = "KeyError")
        => ~(RequiredBase \subseteq source.cols)

\* the row satisfies every active predicate of the widgets (a comparison with
\* a missing value, or with a missing selection, is not satisfied)
Satisfies(r) ==
    /\ \/ target_filter = "All"
       \/ target_filter = "Default only (1)" /\ r["TARGET"] = Cell(1)
       \/ target_filter = "Non-default only (0)" /\ r["TARGET"] = Cell(0)
    /\ \/ gender_filter = All
       \/ gender_filter # NaN /\ r["CODE_GENDER"] = gender_filter
    /\ \/ income_filter = All
       \/ income_filter # NaN /\ r["NAME_INCOME_TYPE"] = income_filter
    /\ r["AGE_YEARS"] # NaN
    /\ age_range[1] <= r["AGE_YEARS"][1]
    /\ r["AGE_YEARS"][1] <= age_range[2]

\* C5: df_filtered is exactly the rows of df that satisfy all active
\* predicates, in the order of df.
C5_FilteredIsConjunction ==
    status = "ok" =>
        /\ {df_filtered.rows[k] : k \in Rows(df_filtered)}
             = {df.rows[i] : i \in {j \in Rows(df) : Satisfies(df.rows[j])}}
        /\ \A k \in Rows(df_filtered) : k > 1 =>
             df_filtered.rows[k - 1]["SK_ID_CURR"][1] < df_filtered.rows[k]["SK_ID_CURR"][1]

\* C5 witness: target, gender and income type are all selected and some but
\* not all rows remain.
C5_Witness ==
    /\ status = "ok"
    /\ target_filter # "All" /\ gender_filter # All /\ income_filter # All
    /\ Len(df_filtered.rows) > 0
    /\ Len(df_filtered.rows) < Len(df.rows)

\* the primed widget values are the unprimed ones with one more restriction
Narrowed ==
    /\ target_filter' = target_filter \/ target_filter = "All"
    /\ gender_filter' = gender_filter \/ gender_filter = All
    /\ income_filter' = income_filter \/ income_filter = All
    /\ age_range[1] <= age_range'[1] /\ age_range'[2] <= age_range[2]

\* C6: making one more predicate active (or narrowing the age range) never
\* increases the filtered row count.
C6_FilterMonotonic ==
    [][(status = "ok" /\ status' = "ok" /\ Narrowed)
          => Len(df_filtered'.rows) <= Len(df_filtered.rows)]_vars

\* C6 witness: two predicates are active on a narrowed age range and rows
\* were dropped.
C6_Witness ==
    /\ status = "ok"
    /\ target_filter # "All" /\ gender_filter # All
    /\ age_range # <<AgeMin(df), AgeMax(df)>>
    /\ Len(df_filtered.rows) < Len(df.rows)

\* C7: on an empty filtered view default_rate, avg_income and avg_credit are 0.
C7_EmptyViewKpisZero ==
    (status = "ok" /\ total_clients = 0) =>
        /\ default_rate = Zero
        /\ avg_income = Zero
        /\ avg_credit = Zero

\* C7 witness: the filters left no row of a loaded dataset.
C7_Witness ==
    /\ status = "ok"
    /\ total_clients = 0
    /\ Len(df_filtered.rows) = 0
    /\ Len(df.rows) > 0

\* C8: a rerun of the filter and aggregation steps leaves the prepared
\* dataset as it was, in the script and in the store.
C8_PreparedUnchanged ==
    [][(status = "ok" /\ status' = "ok") => (df' = df /\ cache' = <<df>>)]_vars

\* C8 witness: a filtered view smaller than the prepared dataset it came from.
C8_Witness ==
    /\ status = "ok"
    /\ cache = <<df>>
    /\ Len(df_filtered.rows) < Len(df.rows)
    /\ income_filter # All

\* C9 as stated: the body of load_data is executed at most once.
C9_BodyAtMostOnce == bodyRuns <= 1

\* C9 amended: the body of load_data returns at most once, and once a frame
\* is memoized every later run gets that frame without entering the body.
C9_MemoizedOnce ==
    /\ [](bodyReturns <= 1)
    /\ [][cache # <<>> => (cache' = cache /\ bodyRuns' = bodyRuns /\ df' = cache[1])]_vars

\* C9 witness: the first fetch failed, the second run memoized the frame and
\* a later run with a changed widget used it.
C9_Witness ==
    /\ status = "ok"
    /\ bodyRuns = 2
    /\ bodyReturns = 1
    /\ target_filter # "All"

\* the nearest one-decimal value of -DAYS_BIRTH / 365, in tenths
AgeIsRounded(r) ==
    /\ ~IsNa(r["AGE_YEARS"])
    /\ 2 * Abs(r["AGE_YEARS"][1] * Fx(DAYS_PER_YEAR) + 10 * r["DAYS_BIRTH"][1])
         <= Fx(DAYS_PER_YEAR)

\* C10 as stated: AGE_YEARS is -DAYS_BIRTH / 365 to one decimal, and a row
\* with DAYS_BIRTH = -10950 gets 30.1.
C10_AgeOf10950Is30_1 ==
    status = "ok" =>
        \A i \in Rows(df) :
            /\ AgeIsRounded(df.rows[i])
            /\ source.rows[i]["DAYS_BIRTH"] = Cell(-10950)
                 => df.rows[i]["AGE_YEARS"] = Cell(301)

\* C10 amended: AGE_YEARS is -DAYS_BIRTH / 365 to one decimal, and a row with
\* DAYS_BIRTH = -10950 gets 30.0.
C10_AgeOf10950Is30_0 ==
    status = "ok" =>
        \A i \in Rows(df) :
            /\ AgeIsRounded(df.rows[i])
            /\ source.rows[i]["DAYS_BIRTH"] = Cell(-10950)
                 => df.rows[i]["AGE_YEARS"] = Cell(300)

\* C10 witness: a loaded row born 10950 days before, beside one whose age is
\* not a whole number of years.
C10_Witness ==
    /\ status = "ok"
    /\ \E i \in Rows(df) : source.rows[i]["DAYS_BIRTH"] = Cell(-10950)
    /\ \E i \in Rows(df) : df.rows[i]["AGE_YEARS"][1] % 10 # 0

====
